---- MODULE Spec2Model ----
(***************************************************************************)
(* Houston CRM: the pipeline/stage engine (pipelineRouter), the deal       *)
(* lifecycle (dealRouter) and the outbound message dispatcher              *)
(* (EmailSender / SmsSender), modelled over a relational store.            *)
(*                                                                         *)
(* Optional values (a nullable column, an optional input) are sets: {} is  *)
(* null / undefined and {x} is the value x.                                *)
(***************************************************************************)
EXTENDS Integers, Sequences, FiniteSets, TLC

\* ------------------------------------------------------------------ bounds
MaxCalls == 4        \* router calls in one behaviour
MaxPipelines == 2    \* pipeline ids
MaxStages == 3       \* stage ids
MaxDeals == 2        \* deal ids
MaxTime == 1         \* clock values 0..MaxTime
MaxMessages == 1     \* message ids
MaxAccounts == 3     \* account ids
MaxFailures == 1     \* provider calls that throw in one behaviour of the polled queue
MaxPairs == 2        \* stages listed in one reorderStages call
MaxRows == 3         \* rows of one bulkImport call, and of the Contact table
MaxImports == 2      \* bulkImport calls in one behaviour
\* findMany({ where: { status: 'QUEUED' }, take: 10, orderBy: { createdAt: 'asc' } })
BatchSize == 10
\* rows of the polled queue: one more than a batch holds
MaxQueued == BatchSize + 1

Tenants == {"t1", "t2"}
PipelineIds == 1..MaxPipelines
StageIds == 1..MaxStages
DealIds == 1..MaxDeals
Times == 0..MaxTime
\* z.number() accepts any number: negative and beyond-the-end positions too
Positions == (0 - 1)..MaxStages
\* contacts are owned by the contact router: one contact per tenant here
ContactIds == {"c1", "c2"}
ContactTenant == [c \in ContactIds |-> IF c = "c1" THEN "t1" ELSE "t2"]
MessageIds == 1..MaxMessages
Workers == {"w1", "w2"}
Requests == {"r1", "r2"}
AccountIds == 1..MaxAccounts
DealStatus == {"OPEN", "WON", "LOST"}
Values == {0, 1}

Null == {}
Some(x) == {x}
Opt(S) == {Null} \cup {Some(x) : x \in S}
Get(o) == CHOOSE x \in o : TRUE

VARIABLES
    pipelines,      \* table Pipeline: id -> [tenantId, order]
    stages,         \* table PipelineStage: id -> [pipelineId, order]
    deals,          \* table Deal: id -> [tenantId, contactId, pipelineId, stageId, status, value, actualCloseDate, createdAt]
    activities,     \* table Activity, in insertion order: [tenantId, dealId, title]
    pipelineSeq,    \* number of pipeline ids handed out so far (ids are never reused)
    stageSeq,       \* number of stage ids handed out so far
    dealSeq,        \* number of deal ids handed out so far
    now,            \* wall clock
    lastCall,       \* the router procedure that took the last step
    result,         \* what that call returned or threw
    calls,          \* number of router calls made so far
    messages,       \* tables Email and SmsMessage: id -> [tenantId, kind, provider, hasKey, status,
                    \*   sentAt, createdAt, trackingId, providerMessageId, openedAt, clickedAt]
    messageSeq,     \* number of message ids handed out so far
    pc,             \* per worker: where its running send() stands
    job,            \* per worker: the id send() was called with and the status it read
    outcome,        \* per worker: how its last send() ended
    providerCalls,  \* per message id: number of provider send calls made for it
    accounts,       \* tables EmailAccount and SmsAccount: id -> [tenantId, kind, isDefault]
    accountSeq,     \* number of account ids handed out so far
    req,            \* per createAccount request in flight: where it stands and its input
    inflight,       \* per pipeline/deal request in flight: where it stands, its input and what it read
    contacts        \* table Contact as bulkImport sees it, in insertion order: [tenantId, email]

crmVars == <<pipelines, stages, deals, activities, pipelineSeq, stageSeq, dealSeq, lastCall, result, calls>>
msgVars == <<messages, messageSeq, pc, job, outcome, providerCalls>>
acctVars == <<accounts, accountSeq, req>>
flightVars == <<inflight, contacts>>
vars == <<crmVars, msgVars, acctVars, flightVars, now>>

\* --------------------------------------------------------------- helpers
Restrict(f, S) == [x \in S |-> f[x]]
Extend(f, k, v) == [x \in DOMAIN f \cup {k} |-> IF x = k THEN v ELSE f[x]]
Max(S) == CHOOSE x \in S : \A y \in S : y <= x

Ok == [code |-> "OK", body |-> [kind |-> "none"]]
\* a request slot with no request in it
Idle == [pc |-> "idle"]
Err(c) == [code |-> c, body |-> [kind |-> "none"]]

\* prisma.contact.findFirst({ where: { id, tenantId } })
ContactFound(c, t) == c \in ContactIds /\ ContactTenant[c] = t

\* prisma.pipeline.findFirst({ where: { id, tenantId } })
PipelineFound(p, t) == p \in DOMAIN pipelines /\ pipelines[p].tenantId = t

\* prisma.pipelineStage.findFirst({ where: { id, pipeline: { tenantId } } })
StageFoundForTenant(s, t) ==
    /\ s \in DOMAIN stages
    /\ stages[s].pipelineId \in DOMAIN pipelines
    /\ pipelines[stages[s].pipelineId].tenantId = t

\* prisma.pipelineStage.findFirst({ where: { id, pipelineId } })
StageFoundInPipeline(s, p) == s \in DOMAIN stages /\ stages[s].pipelineId = p

\* prisma.deal.findFirst({ where: { id, tenantId } })
DealFound(d, t) == d \in DOMAIN deals /\ deals[d].tenantId = t

StagesOf(p) == {s \in DOMAIN stages : stages[s].pipelineId = p}
\* _count.deals of a stage / of a pipeline
StageDealCount(s) == Cardinality({d \in DOMAIN deals : deals[d].stageId = s})
PipelineDealCount(p) == Cardinality({d \in DOMAIN deals : deals[d].pipelineId = p})

\* one tRPC procedure call: counted, and its name recorded
Called(op) ==
    /\ calls < MaxCalls
    /\ calls' = calls + 1
    /\ lastCall' = [op |-> op]
    /\ UNCHANGED <<msgVars, acctVars, flightVars>>

\* ------------------------------------------------------- pipelineRouter
\* const nextOrder = (pipelines[0]?.order ?? -1) + 1, pipelines[0] the tenant's highest order
NextPipelineOrder(t) ==
    LET mine == {p \in DOMAIN pipelines : pipelines[p].tenantId = t}
    IN  IF mine = {} THEN 0 ELSE Max({pipelines[p].order : p \in mine}) + 1

\* pipelineRouter.create with n = stages.length >= 1
CreatePipeline(t, n) ==
    /\ Called("pipeline.create")
    /\ pipelineSeq < MaxPipelines
    /\ stageSeq + n <= MaxStages
    /\ LET pid == pipelineSeq + 1
       IN  /\ pipelines' = Extend(pipelines, pid, [tenantId |-> t, order |-> NextPipelineOrder(t)])
           /\ stages' = [s \in DOMAIN stages \cup ((stageSeq + 1)..(stageSeq + n)) |->
                            IF s > stageSeq
                            THEN [pipelineId |-> pid, order |-> s - stageSeq - 1]
                            ELSE stages[s]]
    /\ pipelineSeq' = pipelineSeq + 1
    /\ stageSeq' = stageSeq + n
    /\ result' = Ok
    /\ UNCHANGED <<deals, activities, dealSeq, now>>

\* the relation Pipeline -> PipelineStage is deleted with its pipeline
StagesAfterPipelineDelete(p) == Restrict(stages, DOMAIN stages \ StagesOf(p))

\* mutant: the deal count is not consulted
DeletePipelineResultNoDealCheck(p, t) ==
    IF ~PipelineFound(p, t) THEN Err("NOT_FOUND") ELSE Ok

\* pipelineRouter.delete
DeletePipelineResult(p, t) ==
    IF ~PipelineFound(p, t) THEN Err("NOT_FOUND")
    ELSE IF PipelineDealCount(p) > 0 THEN Err("BAD_REQUEST")
    ELSE Ok

DeletePipeline(t, p) ==
    /\ Called("pipeline.delete")
    /\ result' = DeletePipelineResult(p, t)
    /\ IF DeletePipelineResult(p, t).code = "OK"
       THEN /\ pipelines' = Restrict(pipelines, DOMAIN pipelines \ {p})
            /\ stages' = StagesAfterPipelineDelete(p)
       ELSE UNCHANGED <<pipelines, stages>>
    /\ UNCHANGED <<deals, activities, pipelineSeq, stageSeq, dealSeq, now>>

\* const order = input.position ?? pipeline.stages.length
AddStageOrder(p, position) ==
    IF position = Null THEN Cardinality(StagesOf(p)) ELSE Get(position)

\* updateMany({ where: { pipelineId, order: { gte: order } }, data: { order: { increment: 1 } } }),
\* run only if (order < pipeline.stages.length)
ShiftUp(p, order) ==
    IF order < Cardinality(StagesOf(p))
    THEN [s \in DOMAIN stages |->
            IF stages[s].pipelineId = p /\ stages[s].order >= order
            THEN [stages[s] EXCEPT !.order = @ + 1]
            ELSE stages[s]]
    ELSE stages

\* pipelineRouter.addStage
AddStage(t, p, position) ==
    /\ stageSeq < MaxStages
    /\ Called("pipeline.addStage")
    /\ IF ~PipelineFound(p, t)
       THEN /\ result' = Err("NOT_FOUND")
            /\ UNCHANGED <<stages, stageSeq>>
       ELSE /\ stages' = Extend(ShiftUp(p, AddStageOrder(p, position)), stageSeq + 1,
                                [pipelineId |-> p, order |-> AddStageOrder(p, position)])
            /\ stageSeq' = stageSeq + 1
            /\ result' = Ok
    /\ UNCHANGED <<pipelines, deals, activities, pipelineSeq, dealSeq, now>>

\* UPDATE pipeline_stages SET "order" = "order" - 1 WHERE pipeline_id = p AND "order" > order
ShiftDown(st, p, order) ==
    [s \in DOMAIN st |->
        IF st[s].pipelineId = p /\ st[s].order > order
        THEN [st[s] EXCEPT !.order = @ - 1]
        ELSE st[s]]

\* pipelineStage.delete({ where: { id } }), then the raw UPDATE with the pipelineId and
\* order of the stage that was read
StagesAfterStageDelete(st, s) ==
    ShiftDown(Restrict(st, DOMAIN st \ {s}), st[s].pipelineId, st[s].order)

\* mutant: the deal count is not consulted
DeleteStageResultNoDealCheck(s, t) ==
    IF ~StageFoundForTenant(s, t) THEN Err("NOT_FOUND") ELSE Ok

\* pipelineRouter.deleteStage
DeleteStageResult(s, t) ==
    IF ~StageFoundForTenant(s, t) THEN Err("NOT_FOUND")
    ELSE IF StageDealCount(s) > 0 THEN Err("BAD_REQUEST")
    ELSE Ok

DeleteStage(t, s) ==
    /\ Called("pipeline.deleteStage")
    /\ result' = DeleteStageResult(s, t)
    /\ IF DeleteStageResult(s, t).code = "OK"
       THEN stages' = StagesAfterStageDelete(stages, s)
       ELSE UNCHANGED stages
    /\ UNCHANGED <<pipelines, deals, activities, pipelineSeq, stageSeq, dealSeq, now>>

\* ------------------------------------------------- pipelineRouter.reorderStages
\* order: z.number(): the values a caller submits
Orders == 0..(MaxStages - 1)

\* stageOrders: any stage ids (z.string()), each listed once, with any order values
StageOrderInputs ==
    UNION {[S -> Orders] : S \in {T \in SUBSET StageIds : Cardinality(T) <= MaxPairs}}

\* one more call of a procedure that runs in steps: counted and named as Called does
CalledInSteps(op) ==
    /\ calls < MaxCalls
    /\ calls' = calls + 1
    /\ lastCall' = [op |-> op]
    /\ UNCHANGED <<msgVars, acctVars, contacts>>

\* a step of a request in flight
Step == UNCHANGED <<calls, lastCall, msgVars, acctVars, contacts>>

\* the requests in flight that will each insert one pipeline, and the stages they carry
CreatesInFlight == {q \in Requests : inflight[q] # Idle /\ inflight[q].op = "pipeline.create"}
RECURSIVE StagesInFlight(_)
StagesInFlight(Q) ==
    IF Q = {} THEN 0
    ELSE LET q == CHOOSE x \in Q : TRUE IN inflight[q].n + StagesInFlight(Q \ {q})

\* pipelineRouter.create up to its first await: findMany({ where: { tenantId }, orderBy:
\* { order: 'desc' }, take: 1 }) and nextOrder computed from what it returned
CreatePipelineRead(r, t, n) ==
    /\ inflight[r] = Idle
    /\ CalledInSteps("pipeline.create")
    /\ pipelineSeq + Cardinality(CreatesInFlight) < MaxPipelines
    /\ stageSeq + StagesInFlight(CreatesInFlight) + n <= MaxStages
    /\ inflight' = [inflight EXCEPT ![r] =
                       [pc |-> "create", op |-> "pipeline.create", tenantId |-> t, n |-> n,
                        nextOrder |-> NextPipelineOrder(t)]]
    /\ UNCHANGED <<pipelines, stages, deals, activities, pipelineSeq, stageSeq, dealSeq, now, result>>

\* pipeline.create({ data: { ..., tenantId, order: nextOrder, stages: { create: ... } } }),
\* then the procedure returns the pipeline
CreatePipelineWrite(r) ==
    /\ inflight[r].pc = "create"
    /\ inflight[r].op = "pipeline.create"
    /\ LET pid == pipelineSeq + 1
           n == inflight[r].n
       IN  /\ pipelines' = Extend(pipelines, pid, [tenantId |-> inflight[r].tenantId,
                                                   order |-> inflight[r].nextOrder])
           /\ stages' = [s \in DOMAIN stages \cup ((stageSeq + 1)..(stageSeq + n)) |->
                            IF s > stageSeq
                            THEN [pipelineId |-> pid, order |-> s - stageSeq - 1]
                            ELSE stages[s]]
           /\ stageSeq' = stageSeq + n
    /\ pipelineSeq' = pipelineSeq + 1
    /\ result' = Ok
    /\ inflight' = [inflight EXCEPT ![r] = Idle]
    /\ Step
    /\ UNCHANGED <<deals, activities, dealSeq, now>>

\* reorderStages up to Promise.all: the pipeline is looked up by id and tenant, the
\* stage ids are not looked up at all
ReorderStagesStart(r, t, p, stageOrders) ==
    /\ inflight[r] = Idle
    /\ CalledInSteps("pipeline.reorderStages")
    /\ IF ~PipelineFound(p, t)
       THEN /\ result' = Err("NOT_FOUND")
            /\ UNCHANGED inflight
       ELSE /\ inflight' = [inflight EXCEPT ![r] =
                               [pc |-> "update", op |-> "pipeline.reorderStages", tenantId |-> t,
                                pipelineId |-> p, stageOrders |-> stageOrders,
                                pending |-> DOMAIN stageOrders, rejected |-> FALSE]]
            /\ UNCHANGED result
    /\ UNCHANGED <<pipelines, stages, deals, activities, pipelineSeq, stageSeq, dealSeq, now>>

\* mutant: the submitted order is taken as a 1-based position
ReorderStagesUpdateOneBased(r, s) ==
    /\ inflight[r].pc = "update"
    /\ inflight[r].op = "pipeline.reorderStages"
    /\ s \in inflight[r].pending
    /\ IF s \in DOMAIN stages
       THEN /\ stages' = [stages EXCEPT ![s].order = inflight[r].stageOrders[s] - 1]
            /\ inflight' = [inflight EXCEPT ![r].pending = @ \ {s}]
       ELSE /\ inflight' = [inflight EXCEPT ![r].pending = @ \ {s}, ![r].rejected = TRUE]
            /\ UNCHANGED stages
    /\ Step
    /\ UNCHANGED <<pipelines, deals, activities, pipelineSeq, stageSeq, dealSeq, now, result>>

\* one of the updates started by stageOrders.map: pipelineStage.update({ where: { id:
\* stageId }, data: { order } }); the updates complete in any order, and the update of
\* an id that names no row rejects
ReorderStagesUpdate(r, s) ==
    /\ inflight[r].pc = "update"
    /\ inflight[r].op = "pipeline.reorderStages"
    /\ s \in inflight[r].pending
    /\ IF s \in DOMAIN stages
       THEN /\ stages' = [stages EXCEPT ![s].order = inflight[r].stageOrders[s]]
            /\ inflight' = [inflight EXCEPT ![r].pending = @ \ {s}]
       ELSE /\ inflight' = [inflight EXCEPT ![r].pending = @ \ {s}, ![r].rejected = TRUE]
            /\ UNCHANGED stages
    /\ Step
    /\ UNCHANGED <<pipelines, deals, activities, pipelineSeq, stageSeq, dealSeq, now, result>>

\* every update has settled: return { success: true }, or the rejection of Promise.all
ReorderStagesReturn(r) ==
    /\ inflight[r].pc = "update"
    /\ inflight[r].op = "pipeline.reorderStages"
    /\ inflight[r].pending = {}
    /\ result' = IF inflight[r].rejected THEN Err("INTERNAL_SERVER_ERROR") ELSE Ok
    /\ inflight' = [inflight EXCEPT ![r] = Idle]
    /\ Step
    /\ UNCHANGED <<pipelines, stages, deals, activities, pipelineSeq, stageSeq, dealSeq, now>>

\* ------------------------------------------------- contactRouter.bulkImport
\* email: z.string().email().optional()
Emails == {"a@x.io", "b@x.io"}

\* contacts: z.array(...), each row an optional email (the other fields do not decide
\* anything)
ImportInputs == UNION {[1..n -> Opt(Emails)] : n \in 0..MaxRows}

\* contact.findFirst({ where: { tenantId, email } })
ExistingContact(table, t, email) ==
    \E k \in DOMAIN table : table[k].tenantId = t /\ Some(table[k].email) = email

\* mutant: the duplicate check is missing, every row goes to contact.create
ImportOneNoDuplicateCheck(st, t, email, skipDuplicates, throws) ==
    IF throws
    THEN [st EXCEPT !.errors = @ + 1]
    ELSE [st EXCEPT !.contacts = Append(@, [tenantId |-> t, email |-> IF email = Null THEN "" ELSE Get(email)]),
                    !.created = @ + 1]

\* one iteration of for (const contactData of input.contacts) { try { ... } catch { errors.push } }
\* on st = [contacts, created, skipped, errors]; throws: contact.create throws.
\* A contact without an email is stored with email "".
ImportOne(st, t, email, skipDuplicates, throws) ==
    IF skipDuplicates /\ email # Null /\ ExistingContact(st.contacts, t, email)
    THEN [st EXCEPT !.skipped = @ + 1]
    ELSE IF throws
    THEN [st EXCEPT !.errors = @ + 1]
    ELSE [st EXCEPT !.contacts = Append(@, [tenantId |-> t, email |-> IF email = Null THEN "" ELSE Get(email)]),
                    !.created = @ + 1]

\* bulkImport is called: results = { created: 0, skipped: 0, errors: [] }; n: the number
\* of rows submitted, rest: the rows the loop has not reached yet
BulkImportStart(r, t, rows, skipDuplicates) ==
    /\ inflight[r] = Idle
    /\ Len(contacts) + Len(rows) <= MaxRows
    /\ calls < MaxImports
    /\ calls' = calls + 1
    /\ lastCall' = [op |-> "contact.bulkImport"]
    /\ inflight' = [inflight EXCEPT ![r] =
                       [pc |-> "row", op |-> "contact.bulkImport", tenantId |-> t,
                        n |-> Len(rows), rest |-> rows, skipDuplicates |-> skipDuplicates,
                        created |-> 0, skipped |-> 0, errors |-> 0]]
    /\ UNCHANGED <<pipelines, stages, deals, activities, pipelineSeq, stageSeq, dealSeq, now,
                   result, msgVars, acctVars, contacts>>

\* the loop body for the next row
BulkImportRow(r, throws) ==
    /\ inflight[r].pc = "row"
    /\ inflight[r].op = "contact.bulkImport"
    /\ inflight[r].rest # <<>>
    /\ LET q == inflight[r]
           st == ImportOne([contacts |-> contacts, created |-> q.created, skipped |-> q.skipped,
                            errors |-> q.errors],
                           q.tenantId, Head(q.rest), q.skipDuplicates, throws)
       IN  /\ contacts' = st.contacts
           /\ inflight' = [inflight EXCEPT ![r].rest = Tail(@), ![r].created = st.created,
                                           ![r].skipped = st.skipped, ![r].errors = st.errors]
    /\ UNCHANGED <<crmVars, msgVars, acctVars, now>>

\* after the loop: activity.create 'Bulk contact import' (it belongs to no deal), return results
BulkImportReturn(r) ==
    /\ inflight[r].pc = "row"
    /\ inflight[r].op = "contact.bulkImport"
    /\ inflight[r].rest = <<>>
    /\ activities' = Append(activities, [tenantId |-> inflight[r].tenantId, dealId |-> 0,
                                         title |-> "Bulk contact import"])
    /\ result' = [code |-> "OK",
                  body |-> [kind |-> "import", created |-> inflight[r].created,
                            skipped |-> inflight[r].skipped, errors |-> inflight[r].errors]]
    /\ inflight' = [inflight EXCEPT ![r] = Idle]
    /\ UNCHANGED <<pipelines, stages, deals, pipelineSeq, stageSeq, dealSeq, lastCall, calls, now,
                   msgVars, acctVars, contacts>>

\* ------------------------------------------------------------ dealRouter
Log(t, d, title) == Append(activities, [tenantId |-> t, dealId |-> d, title |-> title])

\* mutant: the contact is looked up by id alone
CreateDealResultAnyContact(t, c, p, s) ==
    IF c \notin ContactIds THEN Err("NOT_FOUND")
    ELSE IF ~PipelineFound(p, t) THEN Err("NOT_FOUND")
    ELSE IF ~StageFoundInPipeline(s, p) THEN Err("NOT_FOUND")
    ELSE Ok

\* mutant: the stage is looked up by tenant, not by the pipeline given
CreateDealResultStageOfTenant(t, c, p, s) ==
    IF ~ContactFound(c, t) THEN Err("NOT_FOUND")
    ELSE IF ~PipelineFound(p, t) THEN Err("NOT_FOUND")
    ELSE IF ~StageFoundForTenant(s, t) THEN Err("NOT_FOUND")
    ELSE Ok

\* dealRouter.create
CreateDealResult(t, c, p, s) ==
    IF ~ContactFound(c, t) THEN Err("NOT_FOUND")
    ELSE IF ~PipelineFound(p, t) THEN Err("NOT_FOUND")
    ELSE IF ~StageFoundInPipeline(s, p) THEN Err("NOT_FOUND")
    ELSE Ok

CreateDeal(t, c, p, s, v) ==
    /\ dealSeq < MaxDeals
    /\ Called("deal.create")
    /\ result' = CreateDealResult(t, c, p, s)
    /\ IF CreateDealResult(t, c, p, s).code = "OK"
       THEN /\ deals' = Extend(deals, dealSeq + 1,
                               [tenantId |-> t, contactId |-> c, pipelineId |-> p, stageId |-> s,
                                status |-> "OPEN", value |-> v, actualCloseDate |-> Null, createdAt |-> now])
            /\ dealSeq' = dealSeq + 1
            /\ activities' = Log(t, dealSeq + 1, "Deal created")
       ELSE UNCHANGED <<deals, dealSeq, activities>>
    /\ UNCHANGED <<pipelines, stages, pipelineSeq, stageSeq, now>>

\* mutant: a closed deal keeps its status (WON and LOST made terminal)
UpdateDataTerminal(deal, status, value, stamp) ==
    [deal EXCEPT
        !.status = IF status = Null \/ deal.status # "OPEN" THEN @ ELSE Get(status),
        !.value = IF value = Null THEN @ ELSE Get(value),
        !.actualCloseDate = IF status = Some("WON") \/ status = Some("LOST") THEN Some(stamp) ELSE @]

\* mutant: the LOST spread is missing, only WON stamps the close date
UpdateDataStampWonOnly(deal, status, value, stamp) ==
    [deal EXCEPT
        !.status = IF status = Null THEN @ ELSE Get(status),
        !.value = IF value = Null THEN @ ELSE Get(value),
        !.actualCloseDate = IF status = Some("WON") THEN Some(stamp) ELSE @]

\* data: { ...data, ...(status === 'WON' && { actualCloseDate: new Date() }),
\*                  ...(status === 'LOST' && { actualCloseDate: new Date() }) }
\* status and value are optional inputs; stamp is the value of new Date()
UpdateData(deal, status, value, stamp) ==
    [deal EXCEPT
        !.status = IF status = Null THEN @ ELSE Get(status),
        !.value = IF value = Null THEN @ ELSE Get(value),
        !.actualCloseDate = IF status = Some("WON") \/ status = Some("LOST") THEN Some(stamp) ELSE @]

\* dealRouter.update; the handler reads the clock after awaiting the ownership query
UpdateDeal(t, d, status, value) ==
    /\ Called("deal.update")
    /\ IF ~DealFound(d, t)
       THEN /\ result' = Err("NOT_FOUND")
            /\ UNCHANGED <<deals, activities, now>>
       ELSE \E stamp \in (IF status \in {Some("WON"), Some("LOST")} THEN now..MaxTime ELSE {now}) :
            /\ deals' = [deals EXCEPT ![d] = UpdateData(@, status, value, stamp)]
            /\ activities' = Log(t, d, "Deal updated")
            /\ now' = stamp
            /\ result' = Ok
    /\ UNCHANGED <<pipelines, stages, pipelineSeq, stageSeq, dealSeq>>

\* mutant: the new stage is looked up by id alone
MoveStageResultAnyStage(t, d, s) ==
    IF ~DealFound(d, t) THEN Err("NOT_FOUND")
    ELSE IF s \notin DOMAIN stages THEN Err("BAD_REQUEST")
    ELSE Ok

\* dealRouter.moveStage
MoveStageResult(t, d, s) ==
    IF ~DealFound(d, t) THEN Err("NOT_FOUND")
    ELSE IF ~StageFoundInPipeline(s, deals[d].pipelineId) THEN Err("BAD_REQUEST")
    ELSE Ok

\* mutant: moving a deal reopens it
MoveStageReopens(t, d, s) ==
    /\ Called("deal.moveStage")
    /\ result' = MoveStageResult(t, d, s)
    /\ IF MoveStageResult(t, d, s).code = "OK"
       THEN /\ deals' = [deals EXCEPT ![d].stageId = s, ![d].status = "OPEN"]
            /\ activities' = Log(t, d, "Deal moved")
       ELSE UNCHANGED <<deals, activities>>
    /\ UNCHANGED <<pipelines, stages, pipelineSeq, stageSeq, dealSeq, now>>

MoveStage(t, d, s) ==
    /\ Called("deal.moveStage")
    /\ result' = MoveStageResult(t, d, s)
    /\ IF MoveStageResult(t, d, s).code = "OK"
       THEN /\ deals' = [deals EXCEPT ![d].stageId = s]
            /\ activities' = Log(t, d, "Deal moved")
       ELSE UNCHANGED <<deals, activities>>
    /\ UNCHANGED <<pipelines, stages, pipelineSeq, stageSeq, dealSeq, now>>

\* the relation Activity -> Deal: the Activity rows of a deleted deal stay as they are
ActivitiesAfterDealDelete(d) == activities

\* mutant: delete writes an Activity row as create, update and moveStage do
DeleteDealLogged(t, d) ==
    /\ Called("deal.delete")
    /\ IF ~DealFound(d, t)
       THEN /\ result' = Err("NOT_FOUND")
            /\ UNCHANGED <<deals, activities>>
       ELSE /\ deals' = Restrict(deals, DOMAIN deals \ {d})
            /\ activities' = Log(t, d, "Deal deleted")
            /\ result' = Ok
    /\ UNCHANGED <<pipelines, stages, pipelineSeq, stageSeq, dealSeq, now>>

\* dealRouter.delete
DeleteDeal(t, d) ==
    /\ Called("deal.delete")
    /\ IF ~DealFound(d, t)
       THEN /\ result' = Err("NOT_FOUND")
            /\ UNCHANGED <<deals, activities>>
       ELSE /\ deals' = Restrict(deals, DOMAIN deals \ {d})
            /\ activities' = ActivitiesAfterDealDelete(d)
            /\ result' = Ok
    /\ UNCHANGED <<pipelines, stages, pipelineSeq, stageSeq, dealSeq, now>>

\* ------------------------------ deleteStage, moveStage and create, step by step
\* the relation Deal.stage of the store: every deal row names a stage row. A statement
\* that would leave a deal naming no stage fails and changes nothing.
DealStageRelationNotEnforced(dealsT, stagesT) == TRUE

DealStageRelation(dealsT, stagesT) ==
    \A d \in DOMAIN dealsT : dealsT[d].stageId \in DOMAIN stagesT

\* a request ends with a result
Returns(r, res) ==
    /\ result' = res
    /\ inflight' = [inflight EXCEPT ![r] = Idle]

\* deleteStage up to its first await: findFirst({ where: { id, pipeline: { tenantId } },
\* include: { _count: { select: { deals: true } } } }), NOT_FOUND, BAD_REQUEST
DeleteStageRead(r, t, s) ==
    /\ inflight[r] = Idle
    /\ CalledInSteps("pipeline.deleteStage")
    /\ IF DeleteStageResult(s, t).code = "OK"
       THEN /\ inflight' = [inflight EXCEPT ![r] =
                               [pc |-> "delete", op |-> "pipeline.deleteStage", stageId |-> s,
                                pipelineId |-> stages[s].pipelineId, order |-> stages[s].order]]
            /\ UNCHANGED result
       ELSE Returns(r, DeleteStageResult(s, t))
    /\ UNCHANGED <<pipelines, stages, deals, activities, pipelineSeq, stageSeq, dealSeq, now>>

\* pipelineStage.delete({ where: { id } }): it throws if the row is gone or the store
\* refuses the delete
DeleteStageDelete(r) ==
    /\ inflight[r].pc = "delete"
    /\ inflight[r].op = "pipeline.deleteStage"
    /\ LET s == inflight[r].stageId
           left == Restrict(stages, DOMAIN stages \ {s})
       IN  IF s \in DOMAIN stages /\ DealStageRelation(deals, left)
           THEN /\ stages' = left
                /\ inflight' = [inflight EXCEPT ![r].pc = "shift"]
                /\ UNCHANGED result
           ELSE /\ Returns(r, Err("INTERNAL_SERVER_ERROR"))
                /\ UNCHANGED stages
    /\ Step
    /\ UNCHANGED <<pipelines, deals, activities, pipelineSeq, stageSeq, dealSeq, now>>

\* the raw UPDATE with the pipelineId and order read at the start, return { success: true }
DeleteStageShift(r) ==
    /\ inflight[r].pc = "shift"
    /\ inflight[r].op = "pipeline.deleteStage"
    /\ stages' = ShiftDown(stages, inflight[r].pipelineId, inflight[r].order)
    /\ Returns(r, Ok)
    /\ Step
    /\ UNCHANGED <<pipelines, deals, activities, pipelineSeq, stageSeq, dealSeq, now>>

\* moveStage up to its first await: deal.findFirst({ where: { id, tenantId } }), NOT_FOUND
MoveStageFindDeal(r, t, d, s) ==
    /\ inflight[r] = Idle
    /\ CalledInSteps("deal.moveStage")
    /\ IF DealFound(d, t)
       THEN /\ inflight' = [inflight EXCEPT ![r] =
                               [pc |-> "stage", op |-> "deal.moveStage", tenantId |-> t,
                                dealId |-> d, pipelineId |-> deals[d].pipelineId, stageId |-> s]]
            /\ UNCHANGED result
       ELSE Returns(r, Err("NOT_FOUND"))
    /\ UNCHANGED <<pipelines, stages, deals, activities, pipelineSeq, stageSeq, dealSeq, now>>

\* pipelineStage.findFirst({ where: { id: input.stageId, pipelineId: deal.pipelineId } }),
\* BAD_REQUEST
MoveStageFindStage(r) ==
    /\ inflight[r].pc = "stage"
    /\ inflight[r].op = "deal.moveStage"
    /\ IF StageFoundInPipeline(inflight[r].stageId, inflight[r].pipelineId)
       THEN /\ inflight' = [inflight EXCEPT ![r].pc = "write"]
            /\ UNCHANGED result
       ELSE Returns(r, Err("BAD_REQUEST"))
    /\ Step
    /\ UNCHANGED <<pipelines, stages, deals, activities, pipelineSeq, stageSeq, dealSeq, now>>

\* deal.update({ where: { id }, data: { stageId } }): it throws if the row is gone or the
\* store refuses the write; then activity.create 'Deal moved' and the return
MoveStageWrite(r) ==
    /\ inflight[r].pc = "write"
    /\ inflight[r].op = "deal.moveStage"
    /\ LET d == inflight[r].dealId
           moved == [deals EXCEPT ![d].stageId = inflight[r].stageId]
       IN  IF d \in DOMAIN deals /\ DealStageRelation(moved, stages)
           THEN /\ deals' = moved
                /\ activities' = Log(inflight[r].tenantId, d, "Deal moved")
                /\ Returns(r, Ok)
           ELSE /\ Returns(r, Err("INTERNAL_SERVER_ERROR"))
                /\ UNCHANGED <<deals, activities>>
    /\ Step
    /\ UNCHANGED <<pipelines, stages, pipelineSeq, stageSeq, dealSeq, now>>

\* the deal.create calls in flight that will each insert one deal
DealCreatesInFlight == {q \in Requests : inflight[q] # Idle /\ inflight[q].op = "deal.create"}

\* create up to its first await: the three findFirst of Promise.all and the three
\* NOT_FOUND checks
CreateDealValidate(r, t, c, p, s, v) ==
    /\ inflight[r] = Idle
    /\ CalledInSteps("deal.create")
    /\ dealSeq + Cardinality(DealCreatesInFlight) < MaxDeals
    /\ IF CreateDealResult(t, c, p, s).code = "OK"
       THEN /\ inflight' = [inflight EXCEPT ![r] =
                               [pc |-> "create", op |-> "deal.create", tenantId |-> t,
                                contactId |-> c, pipelineId |-> p, stageId |-> s, value |-> v]]
            /\ UNCHANGED result
       ELSE Returns(r, CreateDealResult(t, c, p, s))
    /\ UNCHANGED <<pipelines, stages, deals, activities, pipelineSeq, stageSeq, dealSeq, now>>

\* deal.create({ data: { ..., status: 'OPEN' } }): it throws if the store refuses the
\* insert; then activity.create 'Deal created' and the return
CreateDealWrite(r) ==
    /\ inflight[r].pc = "create"
    /\ inflight[r].op = "deal.create"
    /\ LET q == inflight[r]
           inserted == Extend(deals, dealSeq + 1,
                              [tenantId |-> q.tenantId, contactId |-> q.contactId,
                               pipelineId |-> q.pipelineId, stageId |-> q.stageId,
                               status |-> "OPEN", value |-> q.value, actualCloseDate |-> Null,
                               createdAt |-> now])
       IN  IF DealStageRelation(inserted, stages)
           THEN /\ deals' = inserted
                /\ dealSeq' = dealSeq + 1
                /\ activities' = Log(q.tenantId, dealSeq + 1, "Deal created")
                /\ Returns(r, Ok)
           ELSE /\ Returns(r, Err("INTERNAL_SERVER_ERROR"))
                /\ UNCHANGED <<deals, dealSeq, activities>>
    /\ Step
    /\ UNCHANGED <<pipelines, stages, pipelineSeq, stageSeq, now>>

\* the where clause of stats: the endDate spread replaces the createdAt key of the startDate spread
StatsWhere(t, pid, startDate, endDate) ==
    {d \in DOMAIN deals :
        /\ deals[d].tenantId = t
        /\ (pid # Null => deals[d].pipelineId = Get(pid))
        /\ IF endDate # Null THEN deals[d].createdAt <= Get(endDate)
           ELSE IF startDate # Null THEN deals[d].createdAt >= Get(startDate)
           ELSE TRUE}

CountStatus(S, st) == Cardinality({d \in S : deals[d].status = st})

\* Math.round(x): the nearest integer, ties upward; x = num / den, den > 0
RoundDiv(num, den) == (2 * num + den) \div (2 * den)

\* winRate = totalDeals > 0 ? (won / (won + lost)) * 100 : 0, then Math.round(winRate * 10) / 10.
\* 0 / 0 is NaN and stays NaN through the rounding; tenths is the result times ten.
WinRate(totalDeals, wonDeals, lostDeals) ==
    IF totalDeals > 0
    THEN IF wonDeals + lostDeals = 0
         THEN [nan |-> TRUE, tenths |-> 0]
         ELSE [nan |-> FALSE, tenths |-> RoundDiv(wonDeals * 1000, wonDeals + lostDeals)]
    ELSE [nan |-> FALSE, tenths |-> 0]

\* dealRouter.stats
Stats(t, pid, startDate, endDate) ==
    /\ Called("deal.stats")
    /\ LET S == StatsWhere(t, pid, startDate, endDate)
       IN  result' = [code |-> "OK",
                      body |-> [kind |-> "stats",
                                totalDeals |-> Cardinality(S),
                                wonDeals |-> CountStatus(S, "WON"),
                                lostDeals |-> CountStatus(S, "LOST"),
                                openDeals |-> CountStatus(S, "OPEN"),
                                winRate |-> WinRate(Cardinality(S), CountStatus(S, "WON"), CountStatus(S, "LOST"))]]
    /\ UNCHANGED <<pipelines, stages, deals, activities, pipelineSeq, stageSeq, dealSeq, now>>

\* time passes between the steps of a send
Tick ==
    /\ now < MaxTime
    /\ now' = now + 1
    /\ UNCHANGED <<crmVars, acctVars, flightVars, msgVars>>

\* time passes between two router calls (it uses up one of the MaxCalls steps)
Wait ==
    /\ now < MaxTime
    /\ now' = now + 1
    /\ calls < MaxCalls
    /\ calls' = calls + 1
    /\ UNCHANGED <<pipelines, stages, deals, activities, pipelineSeq, stageSeq, dealSeq, lastCall, result, msgVars, acctVars, flightVars>>

\* ------------------------------------------- EmailSender / SmsSender
EmailProviders == {"SENDGRID", "SMTP", "MAILGUN"}
SmsProviders == {"TWILIO", "TELNYX"}

\* prisma.email.create / prisma.smsMessage.create of the send procedures: the new row.
\* An email gets a trackingId when it tracks opens or clicks (unique per row: the row's
\* id stands for it); an SMS row has no trackingId column and gets its
\* providerMessageId from Twilio when it is sent.
NewMessage(id, t, kind, provider, hasKey, tracked) ==
    [tenantId |-> t, kind |-> kind, provider |-> provider, hasKey |-> hasKey,
     status |-> "QUEUED", sentAt |-> Null, createdAt |-> now,
     trackingId |-> IF tracked THEN Some(id) ELSE Null,
     providerMessageId |-> Null, openedAt |-> Null, clickedAt |-> Null]

\* emailRouter.send / smsRouter.send: the row is created with status QUEUED for an
\* account of the given provider (hasKey: the account has an apiKey)
QueueMessage(t, kind, provider, hasKey, tracked) ==
    /\ messageSeq < MaxMessages
    /\ provider \in (IF kind = "email" THEN EmailProviders ELSE SmsProviders)
    /\ (provider # "SENDGRID" => hasKey)    \* the key matters to SENDGRID accounts only
    /\ (kind = "sms" => ~tracked)
    /\ messages' = Extend(messages, messageSeq + 1,
                          NewMessage(messageSeq + 1, t, kind, provider, hasKey, tracked))
    /\ messageSeq' = messageSeq + 1
    /\ providerCalls' = Extend(providerCalls, messageSeq + 1, 0)
    /\ UNCHANGED <<crmVars, acctVars, flightVars, now, pc, job, outcome>>

\* an id that names no row: ids are generated by the store when a row is created, so
\* an id that is not a row's id now is not the id of a row created later
NoSuchId == 0

\* a queue consumer (emailQueue.process / smsQueue.process) calls send({ id: m })
SendStart(w, m) ==
    /\ pc[w] = "idle"
    /\ m \in DOMAIN messages \cup {NoSuchId}
    /\ pc' = [pc EXCEPT ![w] = "find"]
    /\ job' = [job EXCEPT ![w] = [id |-> m, seen |-> "none"]]
    /\ outcome' = [outcome EXCEPT ![w] = "running"]
    /\ UNCHANGED <<crmVars, acctVars, flightVars, now, messages, messageSeq, providerCalls>>

\* mutant: a row in SENDING is dispatched again
AlreadyProcessedUnlessSending(status) == status \notin {"QUEUED", "SENDING"}

\* if (status !== 'QUEUED') return
AlreadyProcessed(status) == status # "QUEUED"

\* findUnique, then the not-found throw and the already-processed return
SendFind(w) ==
    /\ pc[w] = "find"
    /\ IF job[w].id \notin DOMAIN messages
       THEN /\ pc' = [pc EXCEPT ![w] = "catch"]
            /\ job' = [job EXCEPT ![w].seen = "missing"]
            /\ UNCHANGED outcome
       ELSE /\ job' = [job EXCEPT ![w].seen = messages[job[w].id].status]
            /\ IF AlreadyProcessed(messages[job[w].id].status)
               THEN /\ pc' = [pc EXCEPT ![w] = "idle"]
                    /\ outcome' = [outcome EXCEPT ![w] = "returned"]
               ELSE /\ pc' = [pc EXCEPT ![w] = "sending"]
                    /\ UNCHANGED outcome
    /\ UNCHANGED <<crmVars, acctVars, flightVars, now, messages, messageSeq, providerCalls>>

\* after the SENDING write: does the code reach a provider call, or throw before it?
\* email: SENDGRID needs an apiKey, SMTP goes to sendViaSMTP, anything else is unsupported;
\* sms: TWILIO goes to sendViaTwilio, anything else is unsupported
ReachesProvider(msg) ==
    IF msg.kind = "email"
    THEN (msg.provider = "SENDGRID" /\ msg.hasKey) \/ msg.provider = "SMTP"
    ELSE msg.provider = "TWILIO"

\* mutant: the SENDING write is skipped, the provider is selected at once
SendMarkSendingNoWrite(w) ==
    /\ pc[w] = "sending"
    /\ pc' = [pc EXCEPT ![w] = IF ReachesProvider(messages[job[w].id]) THEN "provider" ELSE "catch"]
    /\ UNCHANGED <<crmVars, acctVars, flightVars, now, messages, messageSeq, job, outcome, providerCalls>>

\* update({ data: { status: 'SENDING' } }) and the provider selection that follows it
SendMarkSending(w) ==
    /\ pc[w] = "sending"
    /\ messages' = [messages EXCEPT ![job[w].id].status = "SENDING"]
    /\ pc' = [pc EXCEPT ![w] = IF ReachesProvider(messages[job[w].id]) THEN "provider" ELSE "catch"]
    /\ UNCHANGED <<crmVars, acctVars, flightVars, now, messageSeq, job, outcome, providerCalls>>

\* sgMail.send / transporter.sendMail / client.messages.create: succeeds or throws
SendProvider(w, success) ==
    /\ pc[w] = "provider"
    /\ providerCalls' = [providerCalls EXCEPT ![job[w].id] = @ + 1]
    /\ pc' = [pc EXCEPT ![w] = IF success THEN "sent" ELSE "catch"]
    /\ UNCHANGED <<crmVars, acctVars, flightVars, now, messages, messageSeq, job, outcome>>

\* update({ data: { status: 'SENT', sentAt: new Date() } }) (sendViaTwilio also stores
\* message.sid as providerMessageId), then send returns
SendMarkSent(w) ==
    /\ pc[w] = "sent"
    /\ messages' = [messages EXCEPT ![job[w].id].status = "SENT", ![job[w].id].sentAt = Some(now),
                                    ![job[w].id].providerMessageId =
                                        IF messages[job[w].id].kind = "sms" THEN Some(job[w].id) ELSE @]
    /\ pc' = [pc EXCEPT ![w] = "idle"]
    /\ outcome' = [outcome EXCEPT ![w] = "returned"]
    /\ UNCHANGED <<crmVars, acctVars, flightVars, now, messageSeq, job, providerCalls>>

\* mutant: the catch block rethrows without writing FAILED
SendCatchNoWrite(w) ==
    /\ pc[w] = "catch"
    /\ pc' = [pc EXCEPT ![w] = "idle"]
    /\ outcome' = [outcome EXCEPT ![w] = "threw"]
    /\ UNCHANGED <<crmVars, acctVars, flightVars, now, messages, messageSeq, job, providerCalls>>

\* catch (error): update({ data: { status: 'FAILED' } }), then throw error;
\* the update of a row that does not exist throws too
SendCatch(w) ==
    /\ pc[w] = "catch"
    /\ messages' = IF job[w].id \in DOMAIN messages
                   THEN [messages EXCEPT ![job[w].id].status = "FAILED"]
                   ELSE messages
    /\ pc' = [pc EXCEPT ![w] = "idle"]
    /\ outcome' = [outcome EXCEPT ![w] = "threw"]
    /\ UNCHANGED <<crmVars, acctVars, flightVars, now, messageSeq, job, providerCalls>>

\* ------------------------------------------------------- processQueue
\* creation times of the rows of the polled queue: early and late
QueueTimes == {0, 1}

\* the send procedures again, filling the table that processQueue polls: up to MaxQueued
\* rows of one table (Email or SmsMessage), each for an account the sender supports;
\* dt is the time that passes before the next call
QueuePolled(kind, dt) ==
    /\ messageSeq < MaxQueued
    /\ now + dt \in QueueTimes
    /\ \A m \in DOMAIN messages : messages[m].kind = kind
    /\ messages' = Extend(messages, messageSeq + 1,
                          NewMessage(messageSeq + 1, "t1", kind,
                                     IF kind = "email" THEN "SENDGRID" ELSE "TWILIO", TRUE, FALSE))
    /\ messageSeq' = messageSeq + 1
    /\ providerCalls' = Extend(providerCalls, messageSeq + 1, 0)
    /\ now' = now + dt
    /\ lastCall' = [op |-> kind \o ".send"]
    /\ result' = Ok
    /\ UNCHANGED <<pipelines, stages, deals, activities, pipelineSeq, stageSeq, dealSeq, calls, pc, job, outcome, acctVars, flightVars>>

\* where: { status: 'QUEUED' } on the table of the given kind
QueuedOf(kind) ==
    {m \in DOMAIN messages : messages[m].kind = kind /\ messages[m].status = "QUEUED"}

\* orderBy: { createdAt: 'asc' }; rows of equal createdAt come in insertion order
Older(a, b) ==
    \/ messages[a].createdAt < messages[b].createdAt
    \/ (messages[a].createdAt = messages[b].createdAt /\ a < b)

RECURSIVE OldestFirst(_)
OldestFirst(S) ==
    IF S = {} THEN <<>>
    ELSE LET m == CHOOSE x \in S : \A y \in S \ {x} : Older(x, y)
         IN  <<m>> \o OldestFirst(S \ {m})

\* take: n
Take(seq, n) == SubSeq(seq, 1, IF Len(seq) < n THEN Len(seq) ELSE n)

\* the rows one processQueue run selects, in the order it dispatches them
Batch(kind) == Take(OldestFirst(QueuedOf(kind)), BatchSize)

\* one whole send() with no other dispatch interleaved, on the store st.messages:
\* a row that is not QUEUED is skipped; otherwise the row ends SENT when the provider
\* is reached and does not throw, and FAILED with send throwing when it does
SendAll(st, m, throws) ==
    LET msg == st.messages[m]
    IN  IF AlreadyProcessed(msg.status)
        THEN [st EXCEPT !.threw = FALSE]
        ELSE IF ReachesProvider(msg) /\ ~throws
        THEN [st EXCEPT !.messages[m].status = "SENT",
                        !.messages[m].sentAt = Some(now),
                        !.messages[m].providerMessageId = IF msg.kind = "sms" THEN Some(m) ELSE @,
                        !.providerCalls[m] = @ + 1,
                        !.threw = FALSE]
        ELSE [st EXCEPT !.messages[m].status = "FAILED",
                        !.providerCalls[m] = IF ReachesProvider(msg) THEN @ + 1 ELSE @,
                        !.threw = TRUE]

\* mutant: the loop has no try/catch, the first send that throws ends the run
RECURSIVE RunBatchNoCatch(_, _, _)
RunBatchNoCatch(st, batch, F) ==
    IF batch = <<>> THEN st
    ELSE LET r == SendAll([st EXCEPT !.attempted = Append(@, Head(batch))], Head(batch), Head(batch) \in F)
         IN  IF r.threw THEN [r EXCEPT !.raised = TRUE] ELSE RunBatchNoCatch(r, Tail(batch), F)

\* for (const email of queuedEmails) { try { await this.send(...) } catch (error) { log } }
\* F: the rows whose provider call throws
RECURSIVE RunBatch(_, _, _)
RunBatch(st, batch, F) ==
    IF batch = <<>> THEN st
    ELSE RunBatch(SendAll([st EXCEPT !.attempted = Append(@, Head(batch))], Head(batch), Head(batch) \in F),
                  Tail(batch), F)

FailedRows == {m \in DOMAIN messages : messages[m].status = "FAILED"}

\* the sets of at most k rows of B: the rows whose provider call may throw in one run
RECURSIVE FailureSets(_, _)
FailureSets(B, k) ==
    IF k <= 0 THEN {{}}
    ELSE FailureSets(B, k - 1) \cup {S \cup {x} : S \in FailureSets(B, k - 1), x \in B}

\* EmailSender.processQueue / SmsSender.processQueue, one run from findMany to the end
\* of the loop; F: the rows whose provider call throws if they are dispatched
ProcessQueue(kind, F) ==
    LET batch == Batch(kind)
        r == RunBatch([messages |-> messages, providerCalls |-> providerCalls,
                       attempted |-> <<>>, threw |-> FALSE, raised |-> FALSE], batch, F)
    IN  /\ messages' = r.messages
        /\ providerCalls' = r.providerCalls
        /\ lastCall' = [op |-> kind \o ".processQueue"]
        /\ result' = [code |-> IF r.raised THEN "THROWN" ELSE "OK",
                      body |-> [kind |-> "batch", attempted |-> r.attempted]]
        /\ UNCHANGED <<pipelines, stages, deals, activities, pipelineSeq, stageSeq, dealSeq, calls, now, messageSeq, pc, job, outcome, acctVars, flightVars>>

\* ------------------------------------------- webhooks and tracking endpoints
\* one inbound provider event or tracking request: counted, named, and the rows it
\* found and the time it was handled recorded
Event(op, found) ==
    /\ calls < MaxCalls
    /\ calls' = calls + 1
    /\ lastCall' = [op |-> op]
    /\ result' = [code |-> "OK", body |-> [kind |-> "event", at |-> now, found |-> found]]
    /\ UNCHANGED <<pipelines, stages, deals, activities, pipelineSeq, stageSeq, dealSeq, now,
                   messageSeq, pc, job, outcome, providerCalls, acctVars, flightVars>>

\* prisma.email.findFirst({ where: { trackingId } }): at most one row, trackingIds are unique
EmailByTracking(tid) ==
    {m \in DOMAIN messages : messages[m].kind = "email" /\ messages[m].trackingId = Some(tid)}

\* prisma.email.findFirst({ where: { trackingId, tenantId } })
EmailByTrackingOfTenant(tid, t) ==
    {m \in EmailByTracking(tid) : messages[m].tenantId = t}

\* prisma.smsMessage.findFirst({ where: { providerMessageId } })
SmsByProviderMessageId(sid) ==
    {m \in DOMAIN messages : messages[m].kind = "sms" /\ messages[m].providerMessageId = Some(sid)}

\* mutant: the open is recorded whether or not openedAt is set
MarkOpenedAlways(msg) ==
    [msg EXCEPT !.status = "OPENED", !.openedAt = Some(now)]

\* if (!email.openedAt) update({ data: { status: 'OPENED', openedAt: new Date() } })
MarkOpened(msg) ==
    IF msg.openedAt = Null
    THEN [msg EXCEPT !.status = "OPENED", !.openedAt = Some(now)]
    ELSE msg

\* if (!email.clickedAt) update({ data: { status: 'CLICKED', clickedAt: new Date() } })
MarkClicked(msg) ==
    IF msg.clickedAt = Null
    THEN [msg EXCEPT !.status = "CLICKED", !.clickedAt = Some(now)]
    ELSE msg

SendGridEvents == {"delivered", "open", "click", "bounce", "dropped", "processed"}

\* switch (event.event) of handleSendGridWebhook
SendGridUpdate(msg, ev) ==
    CASE ev = "delivered" -> [msg EXCEPT !.status = "DELIVERED"]
      [] ev = "open" -> MarkOpened(msg)
      [] ev = "click" -> MarkClicked(msg)
      [] ev \in {"bounce", "dropped"} -> [msg EXCEPT !.status = "BOUNCED"]
      [] OTHER -> msg

TwilioStatuses == {"delivered", "failed", "undelivered", "sent"}

\* switch (status) of handleTwilioWebhook (deliveredAt is not modelled)
TwilioUpdate(msg, st) ==
    CASE st = "delivered" -> [msg EXCEPT !.status = "DELIVERED"]
      [] st \in {"failed", "undelivered"} -> [msg EXCEPT !.status = "FAILED"]
      [] OTHER -> msg

\* handleSendGridWebhook for one event of the posted array
SendGridWebhook(tid, ev) ==
    /\ Event("webhook.sendgrid." \o ev, EmailByTracking(tid))
    /\ messages' = [m \in DOMAIN messages |->
                       IF m \in EmailByTracking(tid) THEN SendGridUpdate(messages[m], ev)
                       ELSE messages[m]]

\* handleTwilioWebhook
TwilioWebhook(sid, st) ==
    /\ Event("webhook.twilio." \o st, SmsByProviderMessageId(sid))
    /\ messages' = [m \in DOMAIN messages |->
                       IF m \in SmsByProviderMessageId(sid) THEN TwilioUpdate(messages[m], st)
                       ELSE messages[m]]

\* GET /api/track/open/[trackingId]: the open beacon
OpenBeacon(tid) ==
    /\ Event("track.open", EmailByTracking(tid))
    /\ messages' = [m \in DOMAIN messages |-> IF m \in EmailByTracking(tid) THEN MarkOpened(messages[m]) ELSE messages[m]]

\* GET /api/track/click/[trackingId]?url=: answers 400 before any lookup when url is missing
ClickRedirect(tid, hasUrl) ==
    /\ Event("track.click", IF hasUrl THEN EmailByTracking(tid) ELSE {})
    /\ messages' = IF hasUrl THEN [m \in DOMAIN messages |-> IF m \in EmailByTracking(tid) THEN MarkClicked(messages[m]) ELSE messages[m]] ELSE messages

\* emailRouter.trackOpen
TrackOpen(t, tid) ==
    /\ Event("email.trackOpen", EmailByTrackingOfTenant(tid, t))
    /\ messages' = [m \in DOMAIN messages |-> IF m \in EmailByTrackingOfTenant(tid, t) THEN MarkOpened(messages[m]) ELSE messages[m]]

\* emailRouter.trackClick
TrackClick(t, tid) ==
    /\ Event("email.trackClick", EmailByTrackingOfTenant(tid, t))
    /\ messages' = [m \in DOMAIN messages |-> IF m \in EmailByTrackingOfTenant(tid, t) THEN MarkClicked(messages[m]) ELSE messages[m]]

\* one whole send({ id: m }) with no other step in between; throws: the provider
\* call throws
Dispatch(m, throws) ==
    /\ m \in DOMAIN messages
    /\ LET r == SendAll([messages |-> messages, providerCalls |-> providerCalls,
                         attempted |-> <<>>, threw |-> FALSE, raised |-> FALSE], m, throws)
       IN  /\ messages' = r.messages
           /\ providerCalls' = r.providerCalls
    /\ UNCHANGED <<crmVars, acctVars, flightVars, now, messageSeq, pc, job, outcome>>

\* ------------------------------------------------------- createAccount
\* the tenant's accounts of one table that are flagged isDefault
Defaults(accts, t, kind) ==
    {a \in DOMAIN accts : accts[a].tenantId = t /\ accts[a].kind = kind /\ accts[a].isDefault}

\* mutant: the unset step is missing
UnsetDefaultsSkipped(accts, t, kind) == accts

\* updateMany({ where: { tenantId, isDefault: true }, data: { isDefault: false } })
UnsetDefaults(accts, t, kind) ==
    [a \in DOMAIN accts |->
        IF a \in Defaults(accts, t, kind) THEN [accts[a] EXCEPT !.isDefault = FALSE] ELSE accts[a]]

\* emailAccount.create / smsAccount.create({ data: { ...input, tenantId } })
InsertAccount(accts, id, t, kind, isDefault) ==
    Extend(accts, id, [tenantId |-> t, kind |-> kind, isDefault |-> isDefault])

\* emailRouter.createAccount / smsRouter.createAccount, run to completion
CreateAccount(t, kind, isDefault) ==
    /\ accountSeq < MaxAccounts
    /\ accounts' = InsertAccount(IF isDefault THEN UnsetDefaults(accounts, t, kind) ELSE accounts,
                                 accountSeq + 1, t, kind, isDefault)
    /\ accountSeq' = accountSeq + 1
    /\ UNCHANGED <<crmVars, msgVars, flightVars, now, req>>

\* a createAccount request arrives: if (input.isDefault) is decided
CreateAccountStart(r, t, kind, isDefault) ==
    /\ req[r].pc = "idle"
    /\ accountSeq + Cardinality({q \in Requests : req[q].pc # "idle"}) < MaxAccounts
    /\ req' = [req EXCEPT ![r] = [pc |-> IF isDefault THEN "unset" ELSE "create",
                                  tenantId |-> t, kind |-> kind, isDefault |-> isDefault]]
    /\ UNCHANGED <<crmVars, msgVars, flightVars, now, accounts, accountSeq>>

\* await updateMany(...)
CreateAccountUnset(r) ==
    /\ req[r].pc = "unset"
    /\ accounts' = UnsetDefaults(accounts, req[r].tenantId, req[r].kind)
    /\ req' = [req EXCEPT ![r].pc = "create"]
    /\ UNCHANGED <<crmVars, msgVars, flightVars, now, accountSeq>>

\* await create(...), then the procedure returns the account
CreateAccountCreate(r) ==
    /\ req[r].pc = "create"
    /\ accounts' = InsertAccount(accounts, accountSeq + 1, req[r].tenantId, req[r].kind, req[r].isDefault)
    /\ accountSeq' = accountSeq + 1
    /\ req' = [req EXCEPT ![r].pc = "idle"]
    /\ UNCHANGED <<crmVars, msgVars, flightVars, now>>

\* ------------------------------------------------------- specifications
Init ==
    /\ pipelines = <<>>
    /\ stages = <<>>
    /\ deals = <<>>
    /\ activities = <<>>
    /\ pipelineSeq = 0
    /\ stageSeq = 0
    /\ dealSeq = 0
    /\ now = 0
    /\ lastCall = [op |-> "none"]
    /\ result = Ok
    /\ calls = 0
    /\ messages = <<>>
    /\ messageSeq = 0
    /\ pc = [w \in Workers |-> "idle"]
    /\ job = [w \in Workers |-> [id |-> 1, seen |-> "none"]]
    /\ outcome = [w \in Workers |-> "none"]
    /\ providerCalls = <<>>
    /\ accounts = <<>>
    /\ accountSeq = 0
    /\ req = [r \in Requests |-> [pc |-> "idle", tenantId |-> "t1", kind |-> "email", isDefault |-> FALSE]]
    /\ inflight = [r \in Requests |-> Idle]
    /\ contacts = <<>>

\* the pipeline/stage engine and the deals that reference its stages, each call run
\* to completion
Next ==
    \/ \E t \in Tenants, n \in 1..2 : CreatePipeline(t, n)
    \/ \E t \in Tenants, p \in PipelineIds : DeletePipeline(t, p)
    \/ \E t \in Tenants, p \in PipelineIds, position \in Opt(Positions) : AddStage(t, p, position)
    \/ \E t \in Tenants, s \in StageIds : DeleteStage(t, s)
    \/ \E t \in Tenants, c \in ContactIds, p \in PipelineIds, s \in StageIds, v \in Values : CreateDeal(t, c, p, s, v)
    \/ \E t \in Tenants, d \in DealIds, s \in StageIds : MoveStage(t, d, s)
    \/ \E t \in Tenants, d \in DealIds : DeleteDeal(t, d)

Spec == Init /\ [][Next]_vars

\* the deal lifecycle: create, update, moveStage and delete over time
NextDeals ==
    \/ \E t \in Tenants, n \in 1..2 : CreatePipeline(t, n)
    \/ \E t \in Tenants, c \in ContactIds, p \in PipelineIds, s \in StageIds, v \in Values : CreateDeal(t, c, p, s, v)
    \/ \E t \in Tenants, d \in DealIds, status \in Opt(DealStatus), value \in Opt(Values) : UpdateDeal(t, d, status, value)
    \/ \E t \in Tenants, d \in DealIds, s \in StageIds : MoveStage(t, d, s)
    \/ \E t \in Tenants, d \in DealIds : DeleteDeal(t, d)
    \/ Wait

SpecDeals == Init /\ [][NextDeals]_vars

\* the stats query over deals being created and updated
NextStats ==
    \/ \E t \in Tenants, n \in 1..2 : CreatePipeline(t, n)
    \/ \E t \in Tenants, c \in ContactIds, p \in PipelineIds, s \in StageIds, v \in Values : CreateDeal(t, c, p, s, v)
    \/ \E t \in Tenants, d \in DealIds, status \in Opt(DealStatus), value \in Opt(Values) : UpdateDeal(t, d, status, value)
    \/ \E t \in Tenants, pid \in Opt(PipelineIds), sd \in Opt(Times), ed \in Opt(Times) : Stats(t, pid, sd, ed)
    \/ Wait

SpecStats == Init /\ [][NextStats]_vars

\* messages being queued and the workers' send() calls, interleaved step by step
NextDispatch ==
    \/ \E kind \in {"email", "sms"}, provider \in EmailProviders \cup SmsProviders, hasKey \in BOOLEAN :
            QueueMessage("t1", kind, provider, hasKey, kind = "email")
    \/ \E w \in Workers, m \in MessageIds \cup {NoSuchId} : SendStart(w, m)
    \/ \E w \in Workers : SendFind(w)
    \/ \E w \in Workers : SendMarkSending(w)
    \/ \E w \in Workers, success \in BOOLEAN : SendProvider(w, success)
    \/ \E w \in Workers : SendMarkSent(w)
    \/ \E w \in Workers : SendCatch(w)
    \/ Tick

SpecDispatch == Init /\ [][NextDispatch]_vars

\* one table of queued rows being filled and polled by processQueue runs
NextPoll ==
    \/ \E kind \in {"email", "sms"}, dt \in {0, 1} : QueuePolled(kind, dt)
    \/ \E kind \in {"email", "sms"} :
         \E F \in FailureSets(QueuedOf(kind), MaxFailures - Cardinality(FailedRows)) : ProcessQueue(kind, F)

SpecPoll == Init /\ [][NextPoll]_vars

\* the callback of the worker's setInterval: emailSender.processQueue(), errors logged
TimerPoll ==
    \E F \in FailureSets(QueuedOf("email"), MaxFailures - Cardinality(FailedRows)) :
        ProcessQueue("email", F)

\* the worker process next to the send procedures: rows are created by emailRouter.send
\* and smsRouter.send, which add no job to emailQueue or smsQueue, so the queue
\* consumers never run and the timer is the only caller of a sender
NextWorker ==
    \/ \E t \in Tenants, kind \in {"email", "sms"}, provider \in EmailProviders \cup SmsProviders,
          hasKey \in BOOLEAN, tracked \in BOOLEAN : QueueMessage(t, kind, provider, hasKey, tracked)
    \/ TimerPoll
    \/ Tick

\* the timer keeps firing for as long as the worker runs
SpecWorker == Init /\ [][NextWorker]_vars /\ WF_vars(TimerPoll)

\* one dispatcher at work on the rows while provider events and tracking requests
\* arrive in any order
NextEvents ==
    \/ \E t \in Tenants, kind \in {"email", "sms"}, tracked \in BOOLEAN :
          QueueMessage(t, kind, IF kind = "email" THEN "SENDGRID" ELSE "TWILIO", TRUE, tracked)
    \/ \E m \in MessageIds : SendStart("w1", m)
    \/ SendFind("w1")
    \/ SendMarkSending("w1")
    \/ \E success \in BOOLEAN : SendProvider("w1", success)
    \/ SendMarkSent("w1")
    \/ SendCatch("w1")
    \/ \E tid \in MessageIds \cup {NoSuchId}, ev \in SendGridEvents : SendGridWebhook(tid, ev)
    \/ \E sid \in MessageIds \cup {NoSuchId}, st \in TwilioStatuses : TwilioWebhook(sid, st)
    \/ \E tid \in MessageIds \cup {NoSuchId} : OpenBeacon(tid)
    \/ \E tid \in MessageIds \cup {NoSuchId}, hasUrl \in BOOLEAN : ClickRedirect(tid, hasUrl)
    \/ \E t \in Tenants, tid \in MessageIds \cup {NoSuchId} : TrackOpen(t, tid)
    \/ \E t \in Tenants, tid \in MessageIds \cup {NoSuchId} : TrackClick(t, tid)
    \/ Tick

SpecEvents == Init /\ [][NextEvents]_vars

\* tracked emails being sent, opened and clicked: the open beacon, the click redirect,
\* the trackOpen / trackClick procedures and SendGrid's events, in any order and repeated
NextTracking ==
    \/ \E tracked \in BOOLEAN : QueueMessage("t1", "email", "SENDGRID", TRUE, tracked)
    \/ \E m \in MessageIds : Dispatch(m, FALSE)
    \/ \E tid \in MessageIds, ev \in SendGridEvents \ {"processed"} : SendGridWebhook(tid, ev)
    \/ \E tid \in MessageIds : OpenBeacon(tid)
    \/ \E tid \in MessageIds, hasUrl \in BOOLEAN : ClickRedirect(tid, hasUrl)
    \/ \E t \in Tenants, tid \in MessageIds : TrackOpen(t, tid)
    \/ \E t \in Tenants, tid \in MessageIds : TrackClick(t, tid)
    \/ Wait

SpecTracking == Init /\ [][NextTracking]_vars

\* createAccount calls one after another
NextAccounts ==
    \E t \in Tenants, kind \in {"email", "sms"}, isDefault \in BOOLEAN : CreateAccount(t, kind, isDefault)

SpecAccounts == Init /\ [][NextAccounts]_vars

\* createAccount requests handled concurrently, interleaved at their awaits
NextAccountsRace ==
    \/ \E r \in Requests, t \in Tenants, kind \in {"email", "sms"}, isDefault \in BOOLEAN :
          CreateAccountStart(r, t, kind, isDefault)
    \/ \E r \in Requests : CreateAccountUnset(r)
    \/ \E r \in Requests : CreateAccountCreate(r)

SpecAccountsRace == Init /\ [][NextAccountsRace]_vars

\* no pipeline or deal request is between two of its steps
NoneInFlight == \A r \in Requests : inflight[r] = Idle

\* one reorderStages call on the pipelines that create has made, the last call of a
\* behaviour; its updates are applied in any order
NextReorder ==
    \/ lastCall.op # "pipeline.reorderStages" /\ \E t \in Tenants, n \in 1..2 : CreatePipeline(t, n)
    \/ lastCall.op # "pipeline.reorderStages" /\
          \E t \in Tenants, p \in PipelineIds, stageOrders \in StageOrderInputs :
             ReorderStagesStart("r1", t, p, stageOrders)
    \/ \E s \in StageIds : ReorderStagesUpdate("r1", s)
    \/ ReorderStagesReturn("r1")

SpecReorder == Init /\ [][NextReorder]_vars

\* every pipeline and deal procedure, called by either tenant with any ids, one call
\* at a time
NextTenants ==
    \/ NoneInFlight /\ \E t \in Tenants, n \in 1..2 : CreatePipeline(t, n)
    \/ NoneInFlight /\ \E t \in Tenants, p \in PipelineIds : DeletePipeline(t, p)
    \/ NoneInFlight /\ \E t \in Tenants, p \in PipelineIds, position \in Opt(Positions) : AddStage(t, p, position)
    \/ NoneInFlight /\ \E t \in Tenants, s \in StageIds : DeleteStage(t, s)
    \/ \E t \in Tenants, p \in PipelineIds, stageOrders \in StageOrderInputs :
          ReorderStagesStart("r1", t, p, stageOrders)
    \/ \E s \in StageIds : ReorderStagesUpdate("r1", s)
    \/ ReorderStagesReturn("r1")
    \/ NoneInFlight /\ \E t \in Tenants, c \in ContactIds, p \in PipelineIds, s \in StageIds, v \in Values : CreateDeal(t, c, p, s, v)
    \/ NoneInFlight /\ \E t \in Tenants, d \in DealIds, status \in Opt(DealStatus), value \in Opt(Values) : UpdateDeal(t, d, status, value)
    \/ NoneInFlight /\ \E t \in Tenants, d \in DealIds, s \in StageIds : MoveStage(t, d, s)
    \/ NoneInFlight /\ \E t \in Tenants, d \in DealIds : DeleteDeal(t, d)

SpecTenants == Init /\ [][NextTenants]_vars

\* pipeline create calls of both tenants running concurrently, and pipeline delete
NextPipelineRace ==
    \/ \E r \in Requests, t \in Tenants, n \in 1..2 : CreatePipelineRead(r, t, n)
    \/ \E r \in Requests : CreatePipelineWrite(r)
    \/ \E t \in Tenants, p \in PipelineIds : DeletePipeline(t, p)

SpecPipelineRace == Init /\ [][NextPipelineRace]_vars

\* bulk imports of both tenants, one call at a time, any row's create failing
NextImport ==
    \/ \E t \in Tenants, rows \in ImportInputs, skipDuplicates \in BOOLEAN :
          BulkImportStart("r1", t, rows, skipDuplicates)
    \/ \E throws \in BOOLEAN : BulkImportRow("r1", throws)
    \/ BulkImportReturn("r1")

SpecImport == Init /\ [][NextImport]_vars

\* tenant t1's deleteStage, moveStage and deal create calls, two at a time, step by step
NextStageRace ==
    \/ \E n \in 1..2 : CreatePipeline("t1", n)
    \/ \E r \in Requests, s \in StageIds : DeleteStageRead(r, "t1", s)
    \/ \E r \in Requests : DeleteStageDelete(r)
    \/ \E r \in Requests : DeleteStageShift(r)
    \/ \E r \in Requests, d \in DealIds, s \in StageIds : MoveStageFindDeal(r, "t1", d, s)
    \/ \E r \in Requests : MoveStageFindStage(r)
    \/ \E r \in Requests : MoveStageWrite(r)
    \/ \E r \in Requests, p \in PipelineIds, s \in StageIds : CreateDealValidate(r, "t1", "c1", p, s, 0)
    \/ \E r \in Requests : CreateDealWrite(r)

SpecStageRace == Init /\ [][NextStageRace]_vars

\* ---------------------------------------------------------------- claims

\* C1: after any sequence of pipeline create, addStage (position omitted or any number)
\* and deleteStage calls, the stage orders of every pipeline are exactly 0..N-1, N the
\* pipeline's stage count (so they are pairwise distinct).
StageOrdersDense ==
    \A p \in DOMAIN pipelines :
        {stages[s].order : s \in StagesOf(p)} = 0..(Cardinality(StagesOf(p)) - 1)

\* C2: every existing deal's stage exists and belongs to the deal's pipeline.
DealStageInDealPipeline ==
    \A d \in DOMAIN deals :
        /\ deals[d].stageId \in DOMAIN stages
        /\ stages[deals[d].stageId].pipelineId = deals[d].pipelineId

\* C2 witness: a moveStage call has succeeded and a deal sits in the stage of order 1
\* of its pipeline.
DealMovedWithinPipeline ==
    /\ lastCall.op = "deal.moveStage"
    /\ result.code = "OK"
    /\ \E d \in DOMAIN deals : deals[d].stageId \in DOMAIN stages /\ stages[deals[d].stageId].order = 1

\* C3: moveStage of a deal of the caller to a stage of another pipeline fails with
\* BAD_REQUEST, changes no deal and writes no Activity row.
MoveStageCrossPipelineRejected ==
    [][lastCall'.op = "deal.moveStage" => \A t \in Tenants, d \in DealIds, s \in StageIds :
          (/\ DealFound(d, t)
           /\ s \in DOMAIN stages
           /\ stages[s].pipelineId # deals[d].pipelineId
           /\ MoveStage(t, d, s))
          => (result'.code = "BAD_REQUEST" /\ deals' = deals /\ activities' = activities)]_vars

\* C3 witness: moveStage was rejected with BAD_REQUEST in a state where every stage id
\* names an existing stage, so the stage it named exists and lies in another pipeline.
MoveStageRejectedForOtherPipeline ==
    /\ lastCall.op = "deal.moveStage"
    /\ result.code = "BAD_REQUEST"
    /\ DOMAIN stages = StageIds
    /\ Cardinality(DOMAIN pipelines) = 2

DealStatusTerminal ==
    [][\A d \in DOMAIN deals \cap DOMAIN deals' :
          deals'[d].status # deals[d].status
          => (deals[d].status = "OPEN" /\ deals'[d].status \in {"WON", "LOST"})]_vars

\* C6 amended: a deal's status changes only in an update call of the deal's tenant that
\* carries the new status, and every such update sets the status it carries, whatever
\* the current status (WON and LOST are not terminal).
DealStatusFollowsUpdate ==
    [][/\ \A d \in DOMAIN deals \cap DOMAIN deals' :
            deals'[d].status # deals[d].status
            => \E t \in Tenants, value \in Opt(Values) :
                  DealFound(d, t) /\ UpdateDeal(t, d, Some(deals'[d].status), value)
       /\ lastCall'.op = "deal.update" =>
            \A t \in Tenants, d \in DealIds, st \in DealStatus, value \in Opt(Values) :
            (DealFound(d, t) /\ UpdateDeal(t, d, Some(st), value)) => deals'[d].status = st]_vars

\* C6 witness: a deal that was closed is OPEN again after an update.
DealReopened ==
    /\ lastCall.op = "deal.update"
    /\ result.code = "OK"
    /\ \E d \in DOMAIN deals : deals[d].status = "OPEN" /\ deals[d].actualCloseDate # Null

\* C7: an OPEN deal has no actualCloseDate and a WON or LOST deal has one.
CloseDateMatchesStatus ==
    \A d \in DOMAIN deals :
        /\ deals[d].status = "OPEN" => deals[d].actualCloseDate = Null
        /\ deals[d].status \in {"WON", "LOST"} => deals[d].actualCloseDate # Null

\* C8: a successful update carrying WON or LOST sets actualCloseDate to a time not
\* before the call, whatever it was; one carrying no status leaves it as it was.
UpdateStampsCloseDate ==
    [][lastCall'.op = "deal.update" =>
       \A t \in Tenants, d \in DealIds, status \in Opt(DealStatus), value \in Opt(Values) :
          (DealFound(d, t) /\ UpdateDeal(t, d, status, value))
          => /\ status \in {Some("WON"), Some("LOST")}
                => \E ts \in Times : ts >= now /\ deals'[d].actualCloseDate = Some(ts)
             /\ status = Null => deals'[d].actualCloseDate = deals[d].actualCloseDate]_vars

\* C8 witness: a deal updated twice is closed with a close date later than its creation,
\* stamped by the update that just ran.
CloseDateRestamped ==
    /\ lastCall.op = "deal.update"
    /\ \E d \in DOMAIN deals :
          /\ deals[d].status \in {"WON", "LOST"}
          /\ deals[d].actualCloseDate = Some(now)
          /\ now > deals[d].createdAt
          /\ Cardinality({i \in DOMAIN activities :
                            activities[i].dealId = d /\ activities[i].title = "Deal updated"}) = 2

\* C9: stats returns winRate 0 whenever no matching deal is WON or LOST.
WinRateZeroWithoutClosedDeals ==
    (lastCall.op = "deal.stats" /\ result.body.wonDeals + result.body.lostDeals = 0)
    => result.body.winRate = [nan |-> FALSE, tenths |-> 0]

\* C10: when send() finds the row with a status other than QUEUED it returns at once:
\* no row changes, no provider call is made and nothing is thrown.
SendOfProcessedIsNoOp ==
    [][\A w \in Workers :
          (job[w].id \in DOMAIN messages /\ messages[job[w].id].status # "QUEUED" /\ SendFind(w))
          => (/\ messages' = messages
              /\ providerCalls' = providerCalls
              /\ pc'[w] = "idle"
              /\ outcome'[w] = "returned")]_vars

\* C10 witness: a send() has returned after reading a status other than QUEUED.
SendSkippedProcessed ==
    \E w \in Workers :
        /\ pc[w] = "idle"
        /\ outcome[w] = "returned"
        /\ job[w].seen \in {"SENDING", "SENT", "FAILED"}

\* C11: over a row's lifetime the provider send call is made at most once, under every
\* interleaving of the steps of two dispatch attempts on the row.
ProviderCalledAtMostOnce ==
    \A m \in DOMAIN providerCalls : providerCalls[m] <= 1

\* C12: the provider is never called for a row that still reads QUEUED, and the first
\* provider call for a row finds it in SENDING; the write that follows a successful
\* provider call sets SENT and sentAt together; no row is SENT with sentAt null.
SendingBeforeProviderThenSent ==
    [][/\ \A w \in Workers, success \in BOOLEAN :
            (pc[w] = "provider" /\ SendProvider(w, success))
            => /\ messages[job[w].id].status # "QUEUED"
               /\ providerCalls[job[w].id] = 0 => messages[job[w].id].status = "SENDING"
               /\ success => pc'[w] = "sent"
       /\ \A w \in Workers :
            (pc[w] = "sent" /\ SendMarkSent(w))
            => (messages'[job[w].id].status = "SENT" /\ messages'[job[w].id].sentAt = Some(now))
       /\ \A m \in DOMAIN messages' :
            messages'[m].status = "SENT" => messages'[m].sentAt # Null]_vars

\* C12 witness: a row dispatched once is SENT with its sentAt set.
SentAfterOneProviderCall ==
    \E m \in DOMAIN messages :
        /\ messages[m].status = "SENT"
        /\ messages[m].sentAt # Null
        /\ providerCalls[m] = 1

\* C13: a provider call that throws, an unsupported provider and a missing API key all
\* lead to the catch block, which writes FAILED, leaves sentAt as it is and makes send
\* throw; a FAILED row with at most one provider call has no sentAt; when no send is
\* running no row is in SENDING.
SendFailureMarksFailed ==
    [][/\ \A w \in Workers :
            (pc[w] = "provider" /\ SendProvider(w, FALSE)) => pc'[w] = "catch"
       /\ \A w \in Workers :
            (pc[w] = "sending" /\ ~ReachesProvider(messages[job[w].id]) /\ SendMarkSending(w))
            => pc'[w] = "catch"
       /\ \A w \in Workers :
            (pc[w] = "catch" /\ job[w].id \in DOMAIN messages /\ SendCatch(w))
            => /\ messages'[job[w].id].status = "FAILED"
               /\ messages'[job[w].id].sentAt = messages[job[w].id].sentAt
               /\ outcome'[w] = "threw"
       /\ \A m \in DOMAIN messages' :
            /\ (messages'[m].status = "FAILED" /\ providerCalls'[m] <= 1) => messages'[m].sentAt = Null
            /\ (\A w \in Workers : pc'[w] = "idle") => messages'[m].status # "SENDING"]_vars

\* C13 witness: a send has thrown after its provider call failed, and the row is FAILED.
SendThrewAfterProviderFailure ==
    \E w \in Workers :
        /\ pc[w] = "idle"
        /\ outcome[w] = "threw"
        /\ job[w].id \in DOMAIN messages
        /\ messages[job[w].id].status = "FAILED"
        /\ messages[job[w].id].sentAt = Null
        /\ providerCalls[job[w].id] = 1

\* C14: one processQueue run attempts exactly the oldest (by createdAt) QUEUED rows of
\* its table, at most BatchSize of them, oldest first; every attempted row leaves QUEUED
\* whether or not an earlier row of the batch failed; the run does not throw; every
\* other row is left as it was.
ProcessQueueDispatchesWholeBatch ==
    [][\A kind \in {"email", "sms"} :
          lastCall'.op = kind \o ".processQueue" =>
          LET att == result'.body.attempted
              A == {att[i] : i \in DOMAIN att}
          IN  /\ result'.code = "OK"
              /\ A \subseteq QueuedOf(kind)
              /\ Cardinality(A) = Len(att)
              /\ Len(att) = IF Cardinality(QueuedOf(kind)) < BatchSize
                            THEN Cardinality(QueuedOf(kind)) ELSE BatchSize
              /\ \A i, j \in DOMAIN att :
                     i < j => messages[att[i]].createdAt <= messages[att[j]].createdAt
              /\ \A m \in QueuedOf(kind) \ A, a \in A :
                     messages[a].createdAt <= messages[m].createdAt
              /\ \A a \in A : messages'[a].status \in {"SENT", "FAILED"}
              /\ \A m \in DOMAIN messages \ A : messages'[m] = messages[m]
              /\ DOMAIN messages' = DOMAIN messages]_vars

\* C14 witness: a run has attempted BatchSize rows, a row of the batch failed, the row
\* attempted after it was sent, and a newer row beyond the batch is still QUEUED.
BatchContinuedAfterFailure ==
    /\ lastCall.op \in {"email.processQueue", "sms.processQueue"}
    /\ result.code = "OK"
    /\ Len(result.body.attempted) = BatchSize
    /\ \E i \in 1..(BatchSize - 1) :
          /\ messages[result.body.attempted[i]].status = "FAILED"
          /\ messages[result.body.attempted[i + 1]].status = "SENT"
    /\ \E m \in DOMAIN messages :
          /\ messages[m].status = "QUEUED"
          /\ \A i \in 1..BatchSize : messages[result.body.attempted[i]].createdAt < messages[m].createdAt

\* C15: every row created QUEUED eventually leaves QUEUED, the worker's timer being
\* scheduled fairly.
QueuedEventuallyDispatched ==
    \A m \in MessageIds :
        (m \in DOMAIN messages /\ messages[m].status = "QUEUED")
        ~> (m \in DOMAIN messages /\ messages[m].status # "QUEUED")

\* C16: a status never changes to an earlier one of QUEUED < SENDING < SENT < DELIVERED
\* < OPENED < CLICKED, and FAILED and BOUNCED never change.
StatusNeverMovesBackward ==
    [][LET Rank(st) == CASE st = "QUEUED" -> 0 [] st = "SENDING" -> 1 [] st = "SENT" -> 2
                         [] st = "DELIVERED" -> 3 [] st = "OPENED" -> 4 [] st = "CLICKED" -> 5
                         [] OTHER -> 6
       IN  \A m \in DOMAIN messages :
              messages'[m].status # messages[m].status
              => /\ messages[m].status \notin {"FAILED", "BOUNCED"}
                 /\ \/ messages'[m].status \in {"FAILED", "BOUNCED"}
                    \/ Rank(messages[m].status) < Rank(messages'[m].status)]_vars

\* the entry points that record an open, and those that record a click
OpenOps == {"webhook.sendgrid.open", "track.open", "email.trackOpen"}
ClickOps == {"webhook.sendgrid.click", "track.click", "email.trackClick"}

\* C17: an open event (SendGrid webhook, open beacon, trackOpen) for a row whose openedAt
\* is null sets openedAt to the time of the event and the status to OPENED; for a row
\* whose openedAt is set it changes nothing; an openedAt that is set never changes. The
\* same for click events, clickedAt and CLICKED.
OpenAndClickRecordedOnce ==
    [][/\ (calls' # calls /\ lastCall'.op \in OpenOps) =>
            \A m \in DOMAIN messages :
               IF m \in result'.body.found /\ messages[m].openedAt = Null
               THEN messages'[m] = [messages[m] EXCEPT !.openedAt = Some(now), !.status = "OPENED"]
               ELSE messages'[m] = messages[m]
       /\ (calls' # calls /\ lastCall'.op \in ClickOps) =>
            \A m \in DOMAIN messages :
               IF m \in result'.body.found /\ messages[m].clickedAt = Null
               THEN messages'[m] = [messages[m] EXCEPT !.clickedAt = Some(now), !.status = "CLICKED"]
               ELSE messages'[m] = messages[m]
       /\ \A m \in DOMAIN messages :
            /\ messages[m].openedAt # Null => messages'[m].openedAt = messages[m].openedAt
            /\ messages[m].clickedAt # Null => messages'[m].clickedAt = messages[m].clickedAt]_vars

\* C17 witness: an open event has just been handled for a row that was opened at an
\* earlier time, and the row still has that openedAt and the status OPENED.
OpenReplayed ==
    /\ lastCall.op \in OpenOps
    /\ \E m \in result.body.found :
          /\ messages[m].openedAt # Null
          /\ Get(messages[m].openedAt) < result.body.at
          /\ messages[m].status = "OPENED"

\* C18: with createAccount calls run one after another, a tenant never has two default
\* accounts in a table; a call with isDefault = true leaves the new account as the
\* tenant's only default of that table, a call with isDefault = false leaves the
\* tenant's default as it was; the defaults of other tenants and tables do not change.
DefaultIsLatestCreatedDefault ==
    [][\A a \in DOMAIN accounts' \ DOMAIN accounts :
          \A t \in Tenants, kind \in {"email", "sms"} :
             /\ Cardinality(Defaults(accounts', t, kind)) <= 1
             /\ IF t = accounts'[a].tenantId /\ kind = accounts'[a].kind /\ accounts'[a].isDefault
                THEN Defaults(accounts', t, kind) = {a}
                ELSE Defaults(accounts', t, kind) = Defaults(accounts, t, kind)]_vars

\* C18 witness: a tenant has three accounts in one table; the second is its only
\* default, the first is not (any more) and the later, non-default one has not changed that.
DefaultReplaced ==
    \E t \in Tenants, kind \in {"email", "sms"} :
        /\ Defaults(accounts, t, kind) = {2}
        /\ \E a \in DOMAIN accounts :
              a < 2 /\ accounts[a].tenantId = t /\ accounts[a].kind = kind /\ ~accounts[a].isDefault
        /\ \E a \in DOMAIN accounts :
              a > 2 /\ accounts[a].tenantId = t /\ accounts[a].kind = kind /\ ~accounts[a].isDefault

\* C19: with two createAccount(isDefault = true) calls of one tenant interleaved, the
\* tenant still has at most one default account in a table.
AtMostOneDefaultAccount ==
    \A t \in Tenants, kind \in {"email", "sms"} : Cardinality(Defaults(accounts, t, kind)) <= 1

\* C20: create, update and moveStage of a deal append, when they succeed, exactly one
\* Activity row for that deal and the caller's tenant, titled 'Deal created', 'Deal
\* updated' and 'Deal moved'; when they fail, and in every delete, the log stays as it
\* is; no step changes or removes a row that is in the log.
ActivityLogCountsDealMutations ==
    [][/\ Len(activities') >= Len(activities)
       /\ SubSeq(activities', 1, Len(activities)) = activities
       /\ lastCall'.op = "deal.create" =>
            \A t \in Tenants, c \in ContactIds, p \in PipelineIds, s \in StageIds, v \in Values :
               (dealSeq < MaxDeals /\ CreateDeal(t, c, p, s, v))
               => activities' = IF result'.code = "OK"
                                THEN Append(activities, [tenantId |-> t, dealId |-> dealSeq + 1, title |-> "Deal created"])
                                ELSE activities
       /\ lastCall'.op = "deal.update" =>
            \A t \in Tenants, d \in DealIds, status \in Opt(DealStatus), value \in Opt(Values) :
               UpdateDeal(t, d, status, value)
               => activities' = IF result'.code = "OK"
                                THEN Append(activities, [tenantId |-> t, dealId |-> d, title |-> "Deal updated"])
                                ELSE activities
       /\ lastCall'.op = "deal.moveStage" =>
            \A t \in Tenants, d \in DealIds, s \in StageIds :
               MoveStage(t, d, s)
               => activities' = IF result'.code = "OK"
                                THEN Append(activities, [tenantId |-> t, dealId |-> d, title |-> "Deal moved"])
                                ELSE activities
       /\ lastCall'.op = "deal.delete" =>
            \A t \in Tenants, d \in DealIds : DeleteDeal(t, d) => activities' = activities]_vars

\* C20 witness: a deal that was created and moved has been deleted, and the log holds
\* exactly its two rows.
DeletedDealLeftItsRows ==
    /\ lastCall.op = "deal.delete"
    /\ result.code = "OK"
    /\ \E d \in DealIds :
          /\ d \notin DOMAIN deals
          /\ Len(activities) = 2
          /\ activities[1].dealId = d /\ activities[1].title = "Deal created"
          /\ activities[2].dealId = d /\ activities[2].title = "Deal moved"

\* C21: a step of a pipeline or deal router call made by tenant t creates, changes or
\* deletes no pipeline, stage or deal of another tenant, whatever ids the call carries.
TenantIsolation ==
    [][LET Owner(pl, st, x) == pl[st[x].pipelineId].tenantId
           RowsOfOthers(pl, st, dl, t) ==
               [pipelines |-> Restrict(pl, {x \in DOMAIN pl : pl[x].tenantId # t}),
                stages |-> Restrict(st, {x \in DOMAIN st : Owner(pl, st, x) # t}),
                deals |-> Restrict(dl, {x \in DOMAIN dl : dl[x].tenantId # t})]
           CallBy(t) ==
               \/ \E n \in 1..2 : CreatePipeline(t, n)
               \/ \E x \in PipelineIds : DeletePipeline(t, x)
               \/ \E x \in PipelineIds, position \in Opt(Positions) : AddStage(t, x, position)
               \/ \E x \in StageIds : DeleteStage(t, x)
               \/ \E c \in ContactIds, x \in PipelineIds, y \in StageIds, v \in Values : CreateDeal(t, c, x, y, v)
               \/ \E d \in DealIds, status \in Opt(DealStatus), value \in Opt(Values) : UpdateDeal(t, d, status, value)
               \/ \E d \in DealIds, x \in StageIds : MoveStage(t, d, x)
               \/ \E d \in DealIds : DeleteDeal(t, d)
               \/ \E r \in Requests :
                     /\ inflight[r] # Idle
                     /\ inflight[r].tenantId = t
                     /\ inflight'[r] # inflight[r]
       IN  \A t \in Tenants :
              CallBy(t) => RowsOfOthers(pipelines', stages', deals', t) = RowsOfOthers(pipelines, stages, deals, t)]_vars

\* C27: each update of a reorderStages call sets the order of the stage it names to the
\* value submitted for it and changes no other stage; when the call returns, every
\* listed stage has the order submitted for it, and if the call listed exactly the
\* stages of its pipeline with the orders 0..N-1, the orders of the pipeline are 0..N-1,
\* each once, in whatever order the updates were applied.
ReorderAppliesSubmittedOrders ==
    [][\A r \in Requests :
          (inflight[r] # Idle /\ inflight[r].op = "pipeline.reorderStages" /\ inflight'[r] # inflight[r]) =>
          LET so == inflight[r].stageOrders
              N == Cardinality(StagesOf(inflight[r].pipelineId))
          IN  IF inflight'[r] = Idle
              THEN /\ stages' = stages
                   /\ \A s \in DOMAIN so \cap DOMAIN stages : stages[s].order = so[s]
                   /\ (DOMAIN so = StagesOf(inflight[r].pipelineId) /\ {so[s] : s \in DOMAIN so} = 0..(N - 1))
                      => /\ {stages[s].order : s \in StagesOf(inflight[r].pipelineId)} = 0..(N - 1)
                         /\ \A a, b \in StagesOf(inflight[r].pipelineId) :
                                a # b => stages[a].order # stages[b].order
                   /\ result'.code = (IF DOMAIN so \subseteq DOMAIN stages THEN "OK" ELSE "INTERNAL_SERVER_ERROR")
              ELSE \E s \in inflight[r].pending :
                   /\ inflight'[r].pending = inflight[r].pending \ {s}
                   /\ DOMAIN stages' = DOMAIN stages
                   /\ \A x \in DOMAIN stages \ {s} : stages'[x] = stages[x]
                   /\ s \in DOMAIN stages =>
                         stages'[s] = [stages[s] EXCEPT !.order = so[s]]]_vars

\* C27 witness: a reorderStages call that listed both stages of a two-stage pipeline has
\* returned, and the stage created first now comes second.
StagesSwapped ==
    /\ lastCall.op = "pipeline.reorderStages"
    /\ result.code = "OK"
    /\ NoneInFlight
    /\ \E p \in DOMAIN pipelines :
          /\ StagesOf(p) = {1, 2}
          /\ stages[1].order = 1
          /\ stages[2].order = 0

\* C22: when addStage has added a stage at any position, deleteStage of that stage gives
\* every other stage of the pipeline the order it had before the addStage.
AddThenDeleteRestoresOrders ==
    [][\A t \in Tenants, p \in PipelineIds, position \in Opt(Positions) :
          (lastCall'.op = "pipeline.addStage" /\ result'.code = "OK" /\ stageSeq' = stageSeq + 1
           /\ AddStage(t, p, position))
          => \A s \in StagesOf(p) :
                StagesAfterStageDelete(stages', stageSeq')[s].order = stages[s].order]_vars

\* C23: no two pipelines of one tenant have the same order, after any pipeline create
\* and delete calls, two create calls of one tenant running concurrently included.
PipelineOrdersUnique ==
    \A p, q \in DOMAIN pipelines :
        (p # q /\ pipelines[p].tenantId = pipelines[q].tenantId) => pipelines[p].order # pipelines[q].order

\* C24: a deal create call either fails with NOT_FOUND, creating no deal and no Activity
\* row, or creates one deal; it creates one only if the contact and the pipeline given
\* are the caller's and the stage given is a stage of that pipeline (the new row holds
\* the caller's tenant and the ids given); every deal created has status OPEN and no
\* actualCloseDate, and one Activity row is written with it.
CreateDealValidatesOwnership ==
    [][(lastCall'.op = "deal.create" /\ calls' # calls) =>
       IF result'.code = "OK"
       THEN /\ Cardinality(DOMAIN deals' \ DOMAIN deals) = 1
            /\ \A d \in DOMAIN deals' \ DOMAIN deals :
                  /\ ContactTenant[deals'[d].contactId] = deals'[d].tenantId
                  /\ deals'[d].pipelineId \in DOMAIN pipelines
                  /\ pipelines[deals'[d].pipelineId].tenantId = deals'[d].tenantId
                  /\ deals'[d].stageId \in DOMAIN stages
                  /\ stages[deals'[d].stageId].pipelineId = deals'[d].pipelineId
                  /\ deals'[d].status = "OPEN"
                  /\ deals'[d].actualCloseDate = Null
            /\ Len(activities') = Len(activities) + 1
       ELSE /\ result'.code = "NOT_FOUND"
            /\ deals' = deals
            /\ activities' = activities]_vars

\* C24 witness: tenant t1 has a pipeline and a deal, and its last deal create was refused
\* with NOT_FOUND, leaving that one deal and its one Activity row.
CreateDealRefused ==
    /\ lastCall.op = "deal.create"
    /\ result.code = "NOT_FOUND"
    /\ DOMAIN deals = {1}
    /\ deals[1].status = "OPEN"
    /\ deals[1].actualCloseDate = Null
    /\ Len(activities) = 1

MoveStageChangesOnlyStageId ==
    [][/\ (lastCall'.op = "deal.moveStage" /\ calls' # calls /\ now' = now /\ result'.code = "OK") =>
          /\ DOMAIN deals' = DOMAIN deals
          /\ Len(activities') = Len(activities) + 1
          /\ \A d \in DOMAIN deals :
                IF d = activities'[Len(activities')].dealId
                THEN /\ deals'[d] = [deals[d] EXCEPT !.stageId = deals'[d].stageId]
                     /\ deals'[d].stageId \in DOMAIN stages
                ELSE deals'[d] = deals[d]
       /\ (lastCall'.op = "deal.update" /\ calls' # calls) =>
          /\ DOMAIN deals' = DOMAIN deals
          /\ \A d \in DOMAIN deals :
                /\ deals'[d].stageId = deals[d].stageId
                /\ deals'[d].pipelineId = deals[d].pipelineId]_vars

\* C26 witness: a deal that was created and then won has been moved to the second stage
\* of its pipeline, and is still WON with its close date.
WonDealMoved ==
    /\ lastCall.op = "deal.moveStage"
    /\ result.code = "OK"
    /\ Len(activities) = 3
    /\ activities[1].title = "Deal created"
    /\ activities[2].title = "Deal updated"
    /\ activities[3].title = "Deal moved"
    /\ 1 \in DOMAIN deals
    /\ deals[1].status = "WON"
    /\ deals[1].actualCloseDate # Null
    /\ stages[deals[1].stageId].order = 1

DeliveredEmailNeverFailed ==
    [][\A m \in DOMAIN messages :
          (/\ messages[m].kind = "email"
           /\ \/ messages[m].status = "SENT"
              \/ \E w \in Workers : pc[w] = "sent" /\ job[w].id = m)
          => messages'[m].status # "FAILED"]_vars

\* C30: a stats call given both startDate and endDate returns the counts, by status,
\* of the caller's deals created from startDate to endDate (of the pipeline given, if
\* one is): totalDeals, wonDeals, lostDeals, openDeals, with totalDeals the sum of
\* the other three.
StatsCountsDealsInDateRange ==
    [][(lastCall'.op = "deal.stats" /\ calls' # calls) =>
       \A t \in Tenants, pid \in Opt(PipelineIds), startDate \in Times, endDate \in Times :
          Stats(t, pid, Some(startDate), Some(endDate)) =>
          LET InRange == {d \in DOMAIN deals :
                             /\ deals[d].tenantId = t
                             /\ (pid # Null => deals[d].pipelineId = Get(pid))
                             /\ deals[d].createdAt >= startDate
                             /\ deals[d].createdAt <= endDate}
              body == result'.body
          IN  /\ body.totalDeals = Cardinality(InRange)
              /\ body.wonDeals = Cardinality({d \in InRange : deals[d].status = "WON"})
              /\ body.lostDeals = Cardinality({d \in InRange : deals[d].status = "LOST"})
              /\ body.openDeals = Cardinality({d \in InRange : deals[d].status = "OPEN"})
              /\ body.totalDeals = body.wonDeals + body.lostDeals + body.openDeals]_vars
====
